---- MODULE Spec2Model ----
(***************************************************************************)
(* A model of kubefed's federated informer                                 *)
(* (pkg/controller/util/federated_informer.go) and of its unmanaged        *)
(* operation dispatcher (the dispatch package).                            *)
(*                                                                         *)
(* The specifications share the variables:                                 *)
(*   Spec          the cluster lifecycle: the registry watch loop with its *)
(*                 event handlers, Stop() and the per-cluster cache loops; *)
(*   SpecView      the read side: GetClientForCluster, GetReadyClusters,   *)
(*                 GetUnreadyClusters and the store's ClustersSynced,      *)
(*                 ListFromCluster, GetByKey and GetFromAllClusters;       *)
(*   SpecDispatch  one pass of the unmanaged dispatcher, and               *)
(*   SpecDispatchLive, the same with its goroutines scheduled fairly;      *)
(*   SpecLock      the informer's mutex: the Lock and Unlock calls of      *)
(*                 every operation, run by concurrent goroutines.          *)
(* Every section of the informer that runs between f.Lock() and            *)
(* f.Unlock() is one action: the mutex makes it atomic.                    *)
(***************************************************************************)
EXTENDS Integers, Sequences, FiniteSets, TLC

(* ------------------------------ bounds --------------------------------- *)

\* Number of cluster names the registry may hold.
NumClusters == 2

\* Number of per-cluster informers (stop channels) created over a run.
MaxInformers == 2

\* Length of the longest list passed to ClustersSynced.
MaxList == 2

\* Number of member clusters one dispatcher pass may target.
NumTargets == 3

(* ------------------------------ values --------------------------------- *)

Names == 1..NumClusters

InformerIds == 1..MaxInformers

\* Cluster.Spec and ObjectMeta.Annotations are only compared for equality
\* (reflect.DeepEqual), so two values of each are enough to tell equal
\* from different.
Specs == {"endpointA", "endpointB"}

Annotations == {"annA", "annB"}

\* Keys of the target objects a member cluster may hold.
Objs == {"obj"}

ReadyTrue == [type |-> "Ready", status |-> "True"]

ReadyFalse == [type |-> "Ready", status |-> "False"]

OfflineTrue == [type |-> "Offline", status |-> "True"]

\* Values of cluster.Status.Conditions: a ready cluster, and one that is not
\* ready although it has a condition that is true and a condition of type
\* Ready.
ConditionLists == {<<ReadyTrue>>, <<OfflineTrue, ReadyFalse>>}

ClusterObjects ==
    [name : Names, conditions : ConditionLists, spec : Specs, annotations : Annotations]

NoCluster == [name |-> 0, conditions |-> <<>>, spec |-> "", annotations |-> ""]

NoEvent == [type |-> "none", old |-> NoCluster, cur |-> NoCluster]

NoCallback == [kind |-> "none", cluster |-> 0, data |-> {}]

EmptyMap == [x \in {} |-> 0]

Put(f, k, v) == [x \in DOMAIN f \cup {k} |-> IF x = k THEN v ELSE f[x]]

Remove(f, k) == [x \in DOMAIN f \ {k} |-> f[x]]

Range(f) == {f[x] : x \in DOMAIN f}

(* ----------------------------- variables ------------------------------- *)

VARIABLES
    started,          \* Start() has run: clusterInformer.stopChan exists, Run launched
    stopped,          \* Stop() has run: clusterInformer.stopChan is closed
    store,            \* clusterInformer.store: cluster name -> FederatedCluster
    targetInformers,  \* f.targetInformers: cluster name -> informer
    stopChan,         \* informer id -> number of close() calls on its stopChan
    running,          \* informer ids whose controller.Run goroutine was launched
    nextId,           \* the next informer to be made by addCluster
    pc,               \* position of the registry watch loop inside a handler
    ev,               \* the event being handled
    data,             \* the handler's local `data`
    cb,               \* the lifecycle callback invoked last: its kind, the name of
                      \* the cluster and the data it was given
    onAvailable,      \* clusterLifecycle.ClusterAvailable != nil
    onUnavailable,    \* clusterLifecycle.ClusterUnavailable != nil
    stopSeen,         \* the entries Stop() found in the map: name -> informer id
    clientErr,        \* the error addCluster logged while the latest event was
                      \* handled ("none": it logged none)
    announced,        \* the names whose latest lifecycle callback was
                      \* ClusterAvailable
    \* a client of the informer's read side
    ret,              \* the read call that returned last, with its result
    cs,               \* the ClustersSynced call in progress
    \* one pass of the unmanaged dispatcher
    recorder,         \* d.recorder != nil
    heap,             \* object reference -> the labels of the object
    ops,              \* target cluster -> the operation dispatched to it
    operationsInitiated,
    operationsCompleted,
    allOk,            \* the dispatcher's accumulated pass/fail flag
    firstErr,         \* the dispatcher's first-seen error
    waitPc,           \* the submitter: "idle", in Wait() ("waiting"), "returned"
    waitRet,          \* what Wait() returned
    recorded,         \* calls of recorder.recordOperationError
    handled,          \* errors given to runtime.HandleError
    events,           \* calls of recorder.recordEvent
    \* the informer's mutex and the goroutines that take it
    mutex,            \* the goroutine that holds f.Mutex ("none": it is free)
    frames            \* goroutine -> what it has still to do: the Lock, Unlock
                      \* and calls of user code of the operation it runs

informerVars ==
    <<started, stopped, store, targetInformers, stopChan, running, nextId, pc, ev, data, cb, onAvailable, onUnavailable, stopSeen,
      clientErr, announced>>

viewVars == <<ret, cs>>

dispatchVars ==
    <<recorder, heap, ops, operationsInitiated, operationsCompleted, allOk, firstErr,
      waitPc, waitRet, recorded, handled, events>>

lockVars == <<mutex, frames>>

vars == <<informerVars, viewVars, dispatchVars, lockVars>>

(* ------------------------- cluster readiness --------------------------- *)

IsClusterReady(cluster) ==
    \E i \in 1..Len(cluster.conditions) :
        /\ cluster.conditions[i].type = "Ready"
        /\ cluster.conditions[i].status = "True"

\* getReadyClusterUnlocked without the readiness test.
getReadyClusterIgnoringReadiness(name) ==
    IF name \in DOMAIN store
    THEN [cluster |-> store[name], found |-> TRUE]
    ELSE [cluster |-> NoCluster, found |-> FALSE]

\* The registry cache holds FederatedCluster objects only, and its GetByKey
\* never fails.
getReadyClusterUnlocked(name) ==
    IF name \in DOMAIN store
    THEN IF IsClusterReady(store[name])
         THEN [cluster |-> store[name], found |-> TRUE]
         ELSE [cluster |-> NoCluster, found |-> FALSE]
    ELSE [cluster |-> NoCluster, found |-> FALSE]

\* The injected client factory either builds a client for the cluster it is
\* given or fails; factoryOk is the outcome of this call.
clientFactory(cluster, factoryOk) ==
    IF factoryOk
    THEN [client |-> cluster, err |-> "nil", called |-> TRUE]
    ELSE [client |-> NoCluster, err |-> "factory", called |-> TRUE]

getClientForClusterUnlocked(name, factoryOk) ==
    LET r == getReadyClusterUnlocked(name)
    IN  IF r.found
        THEN clientFactory(r.cluster, factoryOk)
        ELSE [client |-> NoCluster, err |-> "notfound", called |-> FALSE]

(* ------------------------------ store ---------------------------------- *)

\* The informer struct: its stop channel (by id), the content of its store
\* (the keys of the cached objects) and its controller's HasSynced().
Informers == [id : InformerIds, store : SUBSET Objs, synced : BOOLEAN]

InformerIdsOf(m) == {m[x].id : x \in DOMAIN m}

ListFromCluster(clusterName) ==
    IF clusterName \in DOMAIN targetInformers
    THEN targetInformers[clusterName].store
    ELSE {}

\* What a lookup in a store returns: (item, exists, err).
NoItem == [item |-> "", exists |-> FALSE, err |-> "nil"]

\* targetInformer.store.GetByKey(key) on a store with the given content; the
\* cache.Store may fail the lookup.
storeGetByKey(content, key, fails) ==
    IF fails THEN [item |-> "", exists |-> FALSE, err |-> "lookup"]
    ELSE IF key \in content THEN [item |-> key, exists |-> TRUE, err |-> "nil"]
    ELSE NoItem

\* GetByKey that reports a cluster without an entry as an error.
GetByKeyStrict(clusterName, key, fails) ==
    IF clusterName \in DOMAIN targetInformers
    THEN storeGetByKey(targetInformers[clusterName].store, key, fails)
    ELSE [item |-> "", exists |-> FALSE, err |-> "no such cluster"]

GetByKey(clusterName, key, fails) ==
    IF clusterName \in DOMAIN targetInformers
    THEN storeGetByKey(targetInformers[clusterName].store, key, fails)
    ELSE NoItem

FederatedObject(clusterName, object) == [ClusterName |-> clusterName, Object |-> object]

\* The orders in which `range` may visit the keys of a map.
Orders(S) ==
    {o \in [1..Cardinality(S) -> S] : \A i, j \in DOMAIN o : i # j => o[i] # o[j]}

\* The loop of GetFromAllClusters that skips a cluster whose lookup failed.
RECURSIVE getFromAllClustersSkipping(_, _, _, _)
getFromAllClustersSkipping(order, key, errs, result) ==
    IF Len(order) = 0 THEN [objects |-> result, err |-> "nil"]
    ELSE LET clusterName == order[1]
             rest == [i \in 1..(Len(order) - 1) |-> order[i + 1]]
             r == storeGetByKey(targetInformers[clusterName].store, key, clusterName \in errs)
         IN  IF r.exists
             THEN getFromAllClustersSkipping(rest, key, errs,
                      Append(result, FederatedObject(clusterName, r.item)))
             ELSE getFromAllClustersSkipping(rest, key, errs, result)

\* The loop of GetFromAllClusters over the entries still to visit: the
\* first failed lookup ends the call with that error and a nil result.
RECURSIVE getFromAllClusters(_, _, _, _)
getFromAllClusters(order, key, errs, result) ==
    IF Len(order) = 0 THEN [objects |-> result, err |-> "nil"]
    ELSE LET clusterName == order[1]
             rest == [i \in 1..(Len(order) - 1) |-> order[i + 1]]
             r == storeGetByKey(targetInformers[clusterName].store, key, clusterName \in errs)
         IN  IF r.err # "nil" THEN [objects |-> <<>>, err |-> r.err]
             ELSE IF r.exists
             THEN getFromAllClusters(rest, key, errs,
                      Append(result, FederatedObject(clusterName, r.item)))
             ELSE getFromAllClusters(rest, key, errs, result)

\* The result slices are modelled as sets: the order of store.List() is
\* not specified.
GetReadyClusters == {store[n] : n \in {x \in DOMAIN store : IsClusterReady(store[x])}}

GetUnreadyClusters == {store[n] : n \in {x \in DOMAIN store : ~IsClusterReady(store[x])}}

(* --------------------------- initial state ----------------------------- *)

InformerInit ==
    /\ started = FALSE
    /\ stopped = FALSE
    /\ store = EmptyMap
    /\ targetInformers = EmptyMap
    /\ stopChan = [i \in InformerIds |-> 0]
    /\ running = {}
    /\ nextId = 1
    /\ pc = "idle"
    /\ ev = NoEvent
    /\ data = {}
    /\ cb = NoCallback
    /\ stopSeen = EmptyMap
    /\ clientErr = "none"
    /\ announced = {}

(* ------------------------ the read side at rest ------------------------ *)

NoClient == [client |-> NoCluster, err |-> "", called |-> FALSE]

\* The read call that returned last: its arguments (name, key), what the
\* environment did in it (factoryOk; errs, the clusters whose cache failed
\* the lookup) and its results.
NoRet == [op |-> "none", name |-> 0, factoryOk |-> FALSE, result |-> NoClient, clusters |-> {},
          key |-> "", errs |-> {}, list |-> {}, lookup |-> NoItem, objects |-> <<>>,
          err |-> "nil"]

NoCall == [pc |-> "idle", clusters |-> <<>>, okSoFar |-> FALSE, informersToCheck |-> <<>>,
           result |-> FALSE]

ViewIdle ==
    /\ ret = NoRet
    /\ cs = NoCall

(* ------------------------ the dispatcher at rest ----------------------- *)

Targets == 1..NumTargets

\* The object of target cluster c in its informer cache, and the copy that
\* RemoveManagedLabel makes of it.
cacheRef(c) == c

copyRef(c) == NumTargets + c

Refs == 1..(2 * NumTargets)

ManagedLabel == "kubefed.io/managed"

NoOp == [kind |-> "none", state |-> "none", clientOk |-> FALSE, remoteErr |-> "nil",
         status |-> "none"]

NoError == [cluster |-> 0, op |-> "nil"]

DispatchIdle ==
    /\ recorder = FALSE
    /\ heap = [r \in Refs |-> {}]
    /\ ops = [c \in Targets |-> NoOp]
    /\ operationsInitiated = 0
    /\ operationsCompleted = 0
    /\ allOk = TRUE
    /\ firstErr = NoError
    /\ waitPc = "idle"
    /\ waitRet = [ok |-> FALSE, err |-> NoError]
    /\ recorded = {}
    /\ handled = {}
    /\ events = {}

(* ------------------------- the mutex at rest --------------------------- *)

\* The registry watch loop, which runs the event handlers and the lifecycle
\* callbacks, and the goroutines of the informer's users.
Threads == {"watch", "caller1", "caller2"}

NoThread == "none"

LockIdle ==
    /\ mutex = NoThread
    /\ frames = [t \in Threads |-> <<>>]

Init ==
    /\ InformerInit
    /\ onAvailable \in BOOLEAN
    /\ onUnavailable \in BOOLEAN
    /\ ViewIdle
    /\ LockIdle
    /\ DispatchIdle

(* ----------------------- Start, Stop, map changes ---------------------- *)

Start ==
    /\ ~started
    /\ started' = TRUE
    /\ UNCHANGED <<stopped, store, targetInformers, stopChan, running, nextId, pc, ev, data, cb, onAvailable, onUnavailable, stopSeen, clientErr, announced>>

\* Stop() that closes every entry's channel and leaves the entries in the map.
StopKeepsEntries ==
    /\ started
    /\ ~stopped
    /\ stopped' = TRUE
    /\ stopChan' = [i \in InformerIds |->
                      IF i \in InformerIdsOf(targetInformers) THEN stopChan[i] + 1
                      ELSE stopChan[i]]
    /\ stopSeen' = [n \in DOMAIN targetInformers |-> targetInformers[n].id]
    /\ UNCHANGED <<started, store, targetInformers, running, nextId, pc, ev, data, cb,
                   onAvailable, onUnavailable, clientErr, announced>>

\* close(clusterInformer.stopChan), then close and forget every entry.
Stop ==
    /\ started
    /\ ~stopped
    /\ stopped' = TRUE
    /\ stopChan' = [i \in InformerIds |->
                      IF i \in InformerIdsOf(targetInformers) THEN stopChan[i] + 1
                      ELSE stopChan[i]]
    /\ stopSeen' = [n \in DOMAIN targetInformers |-> targetInformers[n].id]
    /\ targetInformers' = EmptyMap
    /\ UNCHANGED <<started, store, running, nextId, pc, ev, data, cb,
                   onAvailable, onUnavailable, clientErr, announced>>

\* addCluster that makes the entry whether or not it got a client.
addClusterAnyway(cluster, factoryOk) ==
    LET name == cluster.name
        c == getClientForClusterUnlocked(name, factoryOk)
    IN  /\ targetInformers' =
               Put(targetInformers, name, [id |-> nextId, store |-> {}, synced |-> FALSE])
        /\ running' = running \cup {nextId}
        /\ nextId' = nextId + 1
        /\ clientErr' = IF c.err = "nil" THEN "none" ELSE c.err

\* The state change of addCluster(cluster); factoryOk is what the client
\* factory does in this call.
addCluster(cluster, factoryOk) ==
    LET name == cluster.name
        c == getClientForClusterUnlocked(name, factoryOk)
    IN  IF c.err = "nil"
        THEN /\ targetInformers' =
                    Put(targetInformers, name, [id |-> nextId, store |-> {}, synced |-> FALSE])
             /\ running' = running \cup {nextId}
             /\ nextId' = nextId + 1
             /\ clientErr' = "none"
        ELSE /\ clientErr' = c.err
             /\ UNCHANGED <<targetInformers, running, nextId>>

\* The state change of deleteCluster(cluster).
deleteCluster(cluster) ==
    LET name == cluster.name
    IN  /\ stopChan' = IF name \in DOMAIN targetInformers
                       THEN [stopChan EXCEPT ![targetInformers[name].id] = @ + 1]
                       ELSE stopChan
        /\ targetInformers' = Remove(targetInformers, name)

(* ------------------- the registry watch loop's handlers ---------------- *)

\* What the handler does once deleteCluster (and ClusterUnavailable) is over.
afterDelete ==
    IF ev.type = "update" /\ IsClusterReady(ev.cur) THEN "addCluster" ELSE "idle"

\* An UpdateFunc that does not look at the spec.
clusterChangedIgnoringSpec(oldCluster, curCluster) ==
    \/ IsClusterReady(oldCluster) # IsClusterReady(curCluster)
    \/ oldCluster.annotations # curCluster.annotations

\* An UpdateFunc that takes every Update for a change.
clusterChangedAlways(oldCluster, curCluster) == TRUE

\* The old and the new cluster of an Update differ in what UpdateFunc compares.
clusterChanged(oldCluster, curCluster) ==
    \/ IsClusterReady(oldCluster) # IsClusterReady(curCluster)
    \/ oldCluster.spec # curCluster.spec
    \/ oldCluster.annotations # curCluster.annotations

\* The watch loop takes an event while it runs; addCluster makes a new
\* informer, which the model has MaxInformers of.
canDeliver(makesInformer) ==
    /\ started
    /\ ~stopped
    /\ pc = "idle"
    /\ makesInformer => nextId <= MaxInformers

\* A Deleted delta: the cluster leaves the registry cache and DeleteFunc is
\* called with the cluster, or with a DeletedFinalStateUnknown tombstone
\* when the watch missed the deletion.
DeleteFunc(oldCluster, tombstone) ==
    /\ canDeliver(FALSE)
    /\ oldCluster.name \in DOMAIN store
    /\ store[oldCluster.name] = oldCluster
    /\ store' = Remove(store, oldCluster.name)
    /\ cb' = NoCallback
    /\ data' = {}
    /\ clientErr' = "none"
    /\ IF tombstone
       THEN /\ ev' = NoEvent
            /\ pc' = "idle"
       ELSE /\ ev' = [type |-> "delete", old |-> oldCluster, cur |-> NoCluster]
            /\ pc' = IF onUnavailable THEN "getClusterData" ELSE "deleteCluster"
    /\ UNCHANGED <<started, stopped, targetInformers, stopChan, running, nextId, onAvailable, onUnavailable, stopSeen, announced>>

\* An Added delta: the cluster enters the registry cache and AddFunc is called.
AddFunc(curCluster) ==
    /\ canDeliver(IsClusterReady(curCluster))
    /\ curCluster.name \notin DOMAIN store
    /\ store' = Put(store, curCluster.name, curCluster)
    /\ cb' = NoCallback
    /\ data' = {}
    /\ clientErr' = "none"
    /\ IF IsClusterReady(curCluster)
       THEN /\ ev' = [type |-> "add", old |-> NoCluster, cur |-> curCluster]
            /\ pc' = "addCluster"
       ELSE /\ ev' = NoEvent
            /\ pc' = "idle"
    /\ UNCHANGED <<started, stopped, targetInformers, stopChan, running, nextId, onAvailable, onUnavailable, stopSeen, announced>>

\* An Updated (or resync) delta: the registry cache takes the new cluster and
\* UpdateFunc is called with the old and the new one.  When it finds nothing
\* changed the handler only logs the two clusters and returns: ev keeps them
\* (with pc back at "idle") until the next event is delivered.
UpdateFunc(oldCluster, curCluster) ==
    /\ canDeliver(clusterChanged(oldCluster, curCluster) /\ IsClusterReady(curCluster))
    /\ oldCluster.name \in DOMAIN store
    /\ store[oldCluster.name] = oldCluster
    /\ curCluster.name = oldCluster.name
    /\ store' = Put(store, curCluster.name, curCluster)
    /\ cb' = NoCallback
    /\ data' = {}
    /\ clientErr' = "none"
    /\ ev' = [type |-> "update", old |-> oldCluster, cur |-> curCluster]
    /\ IF clusterChanged(oldCluster, curCluster)
       THEN pc' = IF onUnavailable THEN "getClusterData" ELSE "deleteCluster"
       ELSE pc' = "idle"
    /\ UNCHANGED <<started, stopped, targetInformers, stopChan, running, nextId, onAvailable, onUnavailable, stopSeen, announced>>

\* data = getClusterData(oldCluster.Name)
getClusterData ==
    /\ pc = "getClusterData"
    /\ data' = ListFromCluster(ev.old.name)
    /\ pc' = "deleteCluster"
    /\ UNCHANGED <<started, stopped, store, targetInformers, stopChan, running, nextId, ev, cb, onAvailable, onUnavailable, stopSeen, clientErr, announced>>

\* federatedInformer.deleteCluster(oldCluster)
DeleteClusterStep ==
    /\ pc = "deleteCluster"
    /\ deleteCluster(ev.old)
    /\ pc' = IF onUnavailable THEN "ClusterUnavailable" ELSE afterDelete
    /\ ev' = IF ~onUnavailable /\ afterDelete = "idle" THEN NoEvent ELSE ev
    /\ UNCHANGED <<started, stopped, store, running, nextId, data, cb,
                   onAvailable, onUnavailable, stopSeen, clientErr, announced>>

\* clusterLifecycle.ClusterUnavailable(oldCluster, data)
ClusterUnavailable ==
    /\ pc = "ClusterUnavailable"
    /\ cb' = [kind |-> "unavailable", cluster |-> ev.old.name, data |-> data]
    /\ announced' = announced \ {ev.old.name}
    /\ pc' = afterDelete
    /\ ev' = IF afterDelete = "idle" THEN NoEvent ELSE ev
    /\ data' = {}
    /\ UNCHANGED <<started, stopped, store, targetInformers, stopChan, running, nextId, onAvailable, onUnavailable, stopSeen, clientErr>>

\* federatedInformer.addCluster(curCluster)
AddClusterStep ==
    /\ pc = "addCluster"
    /\ \E factoryOk \in BOOLEAN : addCluster(ev.cur, factoryOk)
    /\ pc' = IF onAvailable THEN "ClusterAvailable" ELSE "idle"
    /\ ev' = IF onAvailable THEN ev ELSE NoEvent
    /\ cb' = NoCallback
    /\ UNCHANGED <<started, stopped, store, stopChan, data,
                   onAvailable, onUnavailable, stopSeen, announced>>

\* clusterLifecycle.ClusterAvailable(curCluster)
ClusterAvailable ==
    /\ pc = "ClusterAvailable"
    /\ cb' = [kind |-> "available", cluster |-> ev.cur.name, data |-> {}]
    /\ announced' = announced \cup {ev.cur.name}
    /\ pc' = "idle"
    /\ ev' = NoEvent
    /\ UNCHANGED <<started, stopped, store, targetInformers, stopChan, running, nextId, data, onAvailable, onUnavailable, stopSeen, clientErr>>

(* ------------------------ per-cluster cache loops ---------------------- *)

\* The cache loop of an entry follows its member cluster: the content of the
\* entry's store changes.  (A store that is no longer in the map is never
\* read again.)
CacheUpdate(name, content) ==
    /\ name \in DOMAIN targetInformers
    /\ content # targetInformers[name].store
    /\ targetInformers' = [targetInformers EXCEPT ![name].store = content]
    /\ UNCHANGED <<started, stopped, store, stopChan, running, nextId, pc, ev, data, cb,
                   onAvailable, onUnavailable, stopSeen, clientErr, announced>>

(* --------------------------- specification ----------------------------- *)

Next ==
    \/ Start /\ UNCHANGED <<viewVars, dispatchVars, lockVars>>
    \/ Stop /\ UNCHANGED <<viewVars, dispatchVars, lockVars>>
    \/ \E c \in ClusterObjects : AddFunc(c) /\ UNCHANGED <<viewVars, dispatchVars, lockVars>>
    \/ \E n \in DOMAIN store, t \in BOOLEAN :
           DeleteFunc(store[n], t) /\ UNCHANGED <<viewVars, dispatchVars, lockVars>>
    \/ \E n \in DOMAIN store, c \in ClusterObjects :
           UpdateFunc(store[n], c) /\ UNCHANGED <<viewVars, dispatchVars, lockVars>>
    \/ getClusterData /\ UNCHANGED <<viewVars, dispatchVars, lockVars>>
    \/ DeleteClusterStep /\ UNCHANGED <<viewVars, dispatchVars, lockVars>>
    \/ ClusterUnavailable /\ UNCHANGED <<viewVars, dispatchVars, lockVars>>
    \/ AddClusterStep /\ UNCHANGED <<viewVars, dispatchVars, lockVars>>
    \/ ClusterAvailable /\ UNCHANGED <<viewVars, dispatchVars, lockVars>>
    \/ \E n \in Names, content \in SUBSET Objs :
           CacheUpdate(n, content) /\ UNCHANGED <<viewVars, dispatchVars, lockVars>>

Spec == Init /\ [][Next]_vars

(* ======================= claims on the lifecycle ======================= *)

HasReadyCondition(cluster) ==
    \E i \in 1..Len(cluster.conditions) : cluster.conditions[i] = ReadyTrue

\* The names the most recent registry event reports present and ready: the
\* registry cache is updated with every event before its handler runs.
ReadyNames == {n \in DOMAIN store : HasReadyCondition(store[n])}

Handled == started /\ ~stopped /\ pc = "idle"

\* C1: once each event has been handled, the keys of targetInformers are
\* exactly the cluster names whose most recent event reports the cluster
\* present and ready.
C1_EntriesAreTheReadyClusters == Handled => DOMAIN targetInformers = ReadyNames

\* C2: no stop channel is ever closed twice, and Stop() closes the channel of
\* every entry it finds in the map exactly once.
C2_StopClosesEachEntryOnce ==
    /\ \A i \in InformerIds : stopChan[i] <= 1
    /\ stopped => \A n \in DOMAIN stopSeen : stopChan[stopSeen[n]] = 1

\* Stop() found the entry of a cluster whose Delete/Update handler was about
\* to call deleteCluster, and that deleteCluster has run since.
C2_Witness ==
    /\ stopped
    /\ pc \in {"ClusterUnavailable", "addCluster"}
    /\ ev.old.name \in DOMAIN stopSeen

\* C9: GetReadyClusters() and GetUnreadyClusters() split the registry cache
\* by the readiness condition, and once the events have been handled the
\* ready clusters are exactly those with an active per-cluster entry.
C9_ReadyClustersAreTheEntries ==
    /\ GetReadyClusters = {c \in Range(store) : HasReadyCondition(c)}
    /\ GetUnreadyClusters = Range(store) \ GetReadyClusters
    /\ Handled => {c.name : c \in GetReadyClusters} = DOMAIN targetInformers

\* The handler of a Delete, or of an Update that leaves the cluster not
\* ready, returns in this step for the cluster named n.
FinishesUnavailable(n) ==
    /\ pc' = "idle"
    /\ \/ pc = "idle" /\ n \in DOMAIN store /\ n \notin DOMAIN store'
       \/ /\ pc \in {"deleteCluster", "ClusterUnavailable"}
          /\ ev.old.name = n
          /\ ev.type = "delete" \/ ~HasReadyCondition(ev.cur)

\* C10: with ClusterUnavailable registered, the snapshot is taken while the
\* entry is still in the map, the entry is gone when the callback runs, the
\* callback gets that snapshot, and when the handler of a deleted or
\* now-not-ready cluster returns the map has no entry for it.
C10_SnapshotTeardownCallback ==
    [][/\ (pc = "getClusterData" /\ pc' # pc) =>
              /\ targetInformers' = targetInformers
              /\ ev.old.name \in DOMAIN targetInformers =>
                     data' = targetInformers[ev.old.name].store
       /\ (pc = "ClusterUnavailable" /\ pc' # pc) =>
              /\ ev.old.name \notin DOMAIN targetInformers
              /\ cb' = [kind |-> "unavailable", cluster |-> ev.old.name, data |-> data]
       /\ \A n \in Names :
              (onUnavailable /\ FinishesUnavailable(n)) => n \notin DOMAIN targetInformers'
      ]_vars

\* UpdateFunc is called in this step (a resync that repeats the Update the
\* handler ignored last leaves every variable as it is).
UpdateDelivered == pc = "idle" /\ ev'.type = "update" /\ ev' # ev

SameReadinessSpecAnnotations(oldCluster, curCluster) ==
    /\ HasReadyCondition(oldCluster) <=> HasReadyCondition(curCluster)
    /\ oldCluster.spec = curCluster.spec
    /\ oldCluster.annotations = curCluster.annotations

\* C11: an Update whose old and new cluster have the same readiness, spec
\* and annotations is a no-op: the handler returns at once, the entry map is
\* unchanged, no stop channel is closed, no cache loop is started and no
\* lifecycle callback is invoked.
C11_UnchangedUpdateIsNoOp ==
    [][(UpdateDelivered /\ SameReadinessSpecAnnotations(ev'.old, ev'.cur)) =>
           /\ pc' = "idle"
           /\ targetInformers' = targetInformers
           /\ stopChan' = stopChan
           /\ running' = running
           /\ cb'.kind = "none"
      ]_vars

\* The handler returned from an unchanged Update of a cluster that has an
\* entry.
C11_Witness ==
    /\ pc = "idle"
    /\ ~stopped
    /\ ev.type = "update"
    /\ ev.cur.name \in DOMAIN targetInformers
    /\ store[ev.cur.name] = ev.cur

C13_FailedClientMakesNoEntry ==
    [][(pc = "addCluster" /\ pc' # pc /\ clientErr' # "none") =>
           /\ targetInformers' = targetInformers
           /\ running' = running
           /\ nextId' = nextId
           /\ stopChan' = stopChan
      ]_vars

\* addCluster failed for a ready cluster, with the entry of another cluster
\* in the map.
C13_Witness ==
    /\ clientErr = "factory"
    /\ ~stopped
    /\ pc \in {"idle", "ClusterAvailable"}
    /\ \E n \in DOMAIN store : HasReadyCondition(store[n]) /\ n \notin DOMAIN targetInformers
    /\ DOMAIN targetInformers # {}

\* C14: the next Update for a ready cluster that has no entry (its client
\* construction failed), a resync with the same readiness, spec and
\* annotations included, makes the handler go on to addCluster.
C14_NextEventRetries ==
    [][(/\ UpdateDelivered
        /\ HasReadyCondition(ev'.old)
        /\ HasReadyCondition(ev'.cur)
        /\ ev'.cur.name \notin DOMAIN targetInformers) => pc' # "idle"
      ]_vars

\* C19: once Stop() has run the entry map is empty and stays empty, and
\* every cache loop that was started has had its stop channel closed.
C19_NothingRunsAfterStop ==
    stopped =>
        /\ targetInformers = EmptyMap
        /\ \A i \in running : stopChan[i] >= 1

\* C20: every cache loop that was started and whose informer is no longer
\* an entry of the map has had its stop channel closed.
C20_NoCacheLoopLeaked ==
    \A i \in running : i \in InformerIdsOf(targetInformers) \/ stopChan[i] >= 1

\* C21: with both callbacks registered, ClusterUnavailable is invoked for a
\* cluster only when the latest lifecycle callback for that name was
\* ClusterAvailable.
C21_CallbacksAlternate ==
    [][(onAvailable /\ pc = "ClusterUnavailable" /\ pc' # pc) =>
           ev.old.name \in announced
      ]_vars

\* C22: when ClusterAvailable is invoked for a cluster, the map has an entry
\* for its name whose cache loop was started, and addCluster did not fail.
C22_AvailableMeansEntry ==
    [][(pc = "ClusterAvailable" /\ pc' # pc) =>
           /\ clientErr = "none"
           /\ ev.cur.name \in DOMAIN targetInformers
           /\ targetInformers[ev.cur.name].id \in running
      ]_vars

(* ============================ the read side =========================== *)

\* The informer in any state its lifecycle can leave it in: a registry
\* cache, and entries for some of the names (a ready cluster may have none,
\* an entry may outlive its cluster), each synced or not.
ViewStores ==
    UNION {{f \in [S -> ClusterObjects] : \A n \in S : f[n].name = n} : S \in SUBSET Names}

ViewEntries ==
    UNION {{f \in [T -> Informers] : \A n \in T : f[n].id = n /\ f[n].store = {}} :
              T \in SUBSET (Names \cap InformerIds)}

InitView ==
    /\ started = TRUE
    /\ stopped = FALSE
    /\ store \in ViewStores
    /\ targetInformers \in ViewEntries
    /\ stopChan = [i \in InformerIds |-> 0]
    /\ running = InformerIdsOf(targetInformers)
    /\ nextId = MaxInformers + 1
    /\ pc = "idle"
    /\ ev = NoEvent
    /\ data = {}
    /\ cb = NoCallback
    /\ stopSeen = EmptyMap
    /\ clientErr = "none"
    /\ announced = {}
    /\ onAvailable = FALSE
    /\ onUnavailable = FALSE
    /\ ViewIdle
    /\ LockIdle
    /\ DispatchIdle

GetClientForCluster(clusterName) ==
    /\ \E factoryOk \in BOOLEAN :
           ret' = [NoRet EXCEPT !.op = "GetClientForCluster",
                                !.name = clusterName,
                                !.factoryOk = factoryOk,
                                !.result = getClientForClusterUnlocked(clusterName, factoryOk)]
    /\ cs' = NoCall
    /\ UNCHANGED <<informerVars, dispatchVars, lockVars>>

GetReadyClustersCall ==
    /\ ret' = [NoRet EXCEPT !.op = "GetReadyClusters", !.clusters = GetReadyClusters]
    /\ cs' = NoCall
    /\ UNCHANGED <<informerVars, dispatchVars, lockVars>>

GetUnreadyClustersCall ==
    /\ ret' = [NoRet EXCEPT !.op = "GetUnreadyClusters", !.clusters = GetUnreadyClusters]
    /\ cs' = NoCall
    /\ UNCHANGED <<informerVars, dispatchVars, lockVars>>

ListFromClusterCall(clusterName) ==
    /\ ret' = [NoRet EXCEPT !.op = "ListFromCluster", !.name = clusterName,
                            !.list = ListFromCluster(clusterName), !.err = "nil"]
    /\ cs' = NoCall
    /\ UNCHANGED <<informerVars, dispatchVars, lockVars>>

GetByKeyCall(clusterName, key) ==
    /\ \E fails \in BOOLEAN :
           ret' = [NoRet EXCEPT !.op = "GetByKey", !.name = clusterName, !.key = key,
                                !.errs = IF fails THEN {clusterName} ELSE {},
                                !.lookup = GetByKey(clusterName, key, fails)]
    /\ cs' = NoCall
    /\ UNCHANGED <<informerVars, dispatchVars, lockVars>>

GetFromAllClustersCall(key) ==
    /\ \E errs \in SUBSET Names, order \in Orders(DOMAIN targetInformers) :
           LET r == getFromAllClusters(order, key, errs, <<>>)
           IN  ret' = [NoRet EXCEPT !.op = "GetFromAllClusters", !.key = key, !.errs = errs,
                                    !.objects = r.objects, !.err = r.err]
    /\ cs' = NoCall
    /\ UNCHANGED <<informerVars, dispatchVars, lockVars>>

\* The locked part of ClustersSynced: <<okSoFar, informersToCheck>>; the
\* clusters of the list are given by their names, all the code reads of them.
clustersSyncedLocked(clusters) ==
    IF Cardinality(DOMAIN targetInformers) # Len(clusters)
    THEN [okSoFar |-> FALSE, informersToCheck |-> <<>>]
    ELSE IF \E i \in 1..Len(clusters) : clusters[i] \notin DOMAIN targetInformers
         THEN [okSoFar |-> FALSE, informersToCheck |-> <<>>]
         ELSE [okSoFar |-> TRUE,
               informersToCheck |->
                   [i \in 1..Len(clusters) |-> targetInformers[clusters[i]].id]]

\* informerToCheck.controller.HasSynced()
HasSynced(id) ==
    \E n \in DOMAIN targetInformers :
        targetInformers[n].id = id /\ targetInformers[n].synced

ClustersSyncedLock(clusters) ==
    /\ cs.pc # "check"
    /\ LET r == clustersSyncedLocked(clusters)
       IN  cs' = [pc |-> "check", clusters |-> clusters, okSoFar |-> r.okSoFar,
                  informersToCheck |-> r.informersToCheck, result |-> FALSE]
    /\ ret' = NoRet
    /\ UNCHANGED <<informerVars, dispatchVars, lockVars>>

\* The part of ClustersSynced that runs after the lock is released.
ClustersSyncedCheck ==
    /\ cs.pc = "check"
    /\ cs' = [cs EXCEPT !.pc = "done",
                        !.result = /\ cs.okSoFar
                                   /\ \A i \in 1..Len(cs.informersToCheck) :
                                          HasSynced(cs.informersToCheck[i])]
    /\ UNCHANGED <<ret, informerVars, dispatchVars, lockVars>>

\* The cache loop of an entry finishes its initial list: HasSynced() turns
\* true and stays true.
CacheSynced(name) ==
    /\ name \in DOMAIN targetInformers
    /\ ~targetInformers[name].synced
    /\ targetInformers' = [targetInformers EXCEPT ![name].synced = TRUE]
    /\ UNCHANGED <<started, stopped, store, stopChan, running, nextId, pc, ev, data, cb,
                   onAvailable, onUnavailable, stopSeen, clientErr, announced, viewVars, dispatchVars, lockVars>>

RECURSIVE ListsUpTo(_)
ListsUpTo(k) ==
    IF k = 0 THEN {<<>>}
    ELSE LET shorter == ListsUpTo(k - 1)
         IN  shorter \cup {Append(l, n) : l \in shorter, n \in Names}

NextView ==
    \/ \E n \in Names : GetClientForCluster(n)
    \/ GetReadyClustersCall
    \/ GetUnreadyClustersCall
    \/ \E clusters \in ListsUpTo(MaxList) : ClustersSyncedLock(clusters)
    \/ ClustersSyncedCheck
    \/ \E n \in Names : CacheSynced(n)
    \/ \E n \in Names, content \in SUBSET Objs :
           CacheUpdate(n, content) /\ UNCHANGED <<viewVars, dispatchVars, lockVars>>
    \/ \E n \in Names : ListFromClusterCall(n)
    \/ \E n \in Names, key \in Objs : GetByKeyCall(n, key)
    \/ \E key \in Objs : GetFromAllClustersCall(key)

SpecView == InitView /\ [][NextView]_vars

(* ====================== claims on the read side ======================= *)

\* C3: ClustersSynced(clusters) returns true if and only if the number of
\* entries equals len(clusters), every cluster of the list has an entry and
\* every entry's controller reports HasSynced.
C3_ClustersSyncedIff ==
    [][(cs.pc = "check" /\ cs'.pc = "done") =>
           (cs'.result <=>
               /\ Cardinality(DOMAIN targetInformers) = Len(cs.clusters)
               /\ \A i \in 1..Len(cs.clusters) : cs.clusters[i] \in DOMAIN targetInformers
               /\ \A n \in DOMAIN targetInformers : targetInformers[n].synced)
      ]_vars

\* C8: GetClientForCluster(name) returns a not-found error without calling
\* the client factory when the registry cache has no ready cluster of that
\* name, and otherwise exactly what the factory returns for that cluster.
C8_GetClientForCluster ==
    ret.op = "GetClientForCluster" =>
        IF ret.name \in DOMAIN store /\ HasReadyCondition(store[ret.name])
        THEN /\ ret.result.called
             /\ IF ret.factoryOk
                THEN ret.result.err = "nil" /\ ret.result.client = store[ret.name]
                ELSE ret.result.err = "factory" /\ ret.result.client = NoCluster
        ELSE /\ ret.result.err = "notfound"
             /\ ret.result.client = NoCluster
             /\ ~ret.result.called

\* The call named a cluster that is in the registry cache and not ready.
C8_Witness ==
    /\ ret.op = "GetClientForCluster"
    /\ ret.name \in DOMAIN store
    /\ ~HasReadyCondition(store[ret.name])
    /\ ret.result.err = "notfound"

\* C15: a read that names a cluster without an entry does not fail:
\* ListFromCluster returns the empty list and a nil error, GetByKey returns
\* (nil, false, nil); with an entry they return the content of that
\* cluster's cache and the result of its lookup.
C15_ReadsOfOneCluster ==
    [][/\ (ret'.op = "ListFromCluster" /\ ret' # ret) =>
              /\ ret'.err = "nil"
              /\ ret'.list = IF ret'.name \in DOMAIN targetInformers
                             THEN targetInformers[ret'.name].store
                             ELSE {}
       /\ (ret'.op = "GetByKey" /\ ret' # ret) =>
              IF ret'.name \in DOMAIN targetInformers
              THEN LET content == targetInformers[ret'.name].store
                   IN  IF ret'.errs # {}
                       THEN ret'.lookup.err # "nil"
                       ELSE /\ ret'.lookup.err = "nil"
                            /\ ret'.lookup.exists <=> ret'.key \in content
                            /\ ret'.lookup.exists => ret'.lookup.item = ret'.key
              ELSE ret'.lookup = [item |-> "", exists |-> FALSE, err |-> "nil"]
      ]_vars

\* GetByKey named a ready cluster of the registry that has no entry, while
\* the cache of another cluster holds the key.
C15_Witness ==
    /\ ret.op = "GetByKey"
    /\ ret.name \in DOMAIN store
    /\ HasReadyCondition(store[ret.name])
    /\ ret.name \notin DOMAIN targetInformers
    /\ \E n \in DOMAIN targetInformers : ret.key \in targetInformers[n].store
    /\ ret.lookup = [item |-> "", exists |-> FALSE, err |-> "nil"]

\* The clusters with an entry whose cache holds the key.
Holders(key) == {n \in DOMAIN targetInformers : key \in targetInformers[n].store}

\* C16: GetFromAllClusters(key) returns the error and no result when the
\* lookup of an entry fails; otherwise it returns one FederatedObject,
\* carrying the cluster's name, for each entry whose cache holds the key and
\* none for the others.
C16_GetFromAllClusters ==
    [][(ret'.op = "GetFromAllClusters" /\ ret' # ret) =>
           IF ret'.errs \cap DOMAIN targetInformers # {}
           THEN ret'.err # "nil" /\ ret'.objects = <<>>
           ELSE /\ ret'.err = "nil"
                /\ Len(ret'.objects) = Cardinality(Holders(ret'.key))
                /\ {ret'.objects[i] : i \in 1..Len(ret'.objects)} =
                       {[ClusterName |-> n, Object |-> ret'.key] : n \in Holders(ret'.key)}
      ]_vars

\* Two entries hold the key and the lookup of one of them failed.
C16_Witness ==
    /\ ret.op = "GetFromAllClusters"
    /\ Cardinality(Holders(ret.key)) = 2
    /\ Cardinality(ret.errs \cap DOMAIN targetInformers) = 1
    /\ ret.err = "lookup"
    /\ ret.objects = <<>>

(* ======================= the unmanaged dispatcher ====================== *)

\* The outcomes an operation closure may return.
Statuses ==
    {"AllOK", "Error", "NeedsRecheckMeta", "NeedsRecheckResource", "AlreadyExists"}

\* What the remote call of a closure returns: Delete may find nothing to
\* delete, any call may fail otherwise.
DeleteErrors == {"nil", "NotFound", "Other"}

UpdateErrors == {"nil", "Other"}

\* One pass: a dispatcher with or without a recorder, and the cached
\* objects of the target clusters carrying the managed label or not.
InitDispatch ==
    /\ InformerInit
    /\ onAvailable = FALSE
    /\ onUnavailable = FALSE
    /\ ViewIdle
    /\ LockIdle
    /\ recorder \in BOOLEAN
    /\ \E labels \in {{ManagedLabel, "app"}, {"app"}} :
           heap = [r \in Refs |-> IF r \in Targets THEN labels ELSE {}]
    /\ ops = [c \in Targets |-> NoOp]
    /\ operationsInitiated = 0
    /\ operationsCompleted = 0
    /\ allOk = TRUE
    /\ firstErr = NoError
    /\ waitPc = "idle"
    /\ waitRet = [ok |-> FALSE, err |-> NoError]
    /\ recorded = {}
    /\ handled = {}
    /\ events = {}

incrementOperationsInitiated == operationsInitiated' = operationsInitiated + 1

\* The submitter dispatches before it calls Wait(), one operation for each
\* target cluster; launch is the `go d.dispatcher.clusterOperation(...)`.
launch(clusterName, kind) ==
    /\ waitPc = "idle"
    /\ ops[clusterName].state = "none"
    /\ ops' = [ops EXCEPT ![clusterName] = [NoOp EXCEPT !.kind = kind, !.state = "launched"]]

\* Delete that launches its goroutine without counting the operation.
DeleteUncounted(clusterName) ==
    /\ launch(clusterName, "delete")
    /\ UNCHANGED <<operationsInitiated, heap, recorder, operationsCompleted, allOk, firstErr,
                   waitPc, waitRet, recorded, handled, events>>

Delete(clusterName) ==
    /\ incrementOperationsInitiated
    /\ launch(clusterName, "delete")
    /\ UNCHANGED <<heap, recorder, operationsCompleted, allOk, firstErr, waitPc, waitRet,
                   recorded, handled, events>>

\* RemoveManagedLabel that leaves the counting to the goroutine it launches.
RemoveManagedLabelUncounted(clusterName) ==
    /\ launch(clusterName, "remove managed label from")
    /\ UNCHANGED <<operationsInitiated, heap, recorder, operationsCompleted, allOk, firstErr,
                   waitPc, waitRet, recorded, handled, events>>

RemoveManagedLabel(clusterName) ==
    /\ incrementOperationsInitiated
    /\ launch(clusterName, "remove managed label from")
    /\ UNCHANGED <<heap, recorder, operationsCompleted, allOk, firstErr, waitPc, waitRet,
                   recorded, handled, events>>

\* An operation of the managed dispatcher (create, update): its closure may
\* return any outcome.
ManagedOperation(clusterName) ==
    /\ incrementOperationsInitiated
    /\ launch(clusterName, "managed")
    /\ UNCHANGED <<heap, recorder, operationsCompleted, allOk, firstErr, waitPc, waitRet,
                   recorded, handled, events>>

opError(clusterName, op) == [cluster |-> clusterName, op |-> op]

\* What a closure does: the outcome it returns, what it records and logs,
\* and the heap it leaves.
closureResult(status, rec, hand, h) ==
    [status |-> status, recorded |-> rec, handled |-> hand, heap |-> h]

\* The closure of Delete that takes not-found for a failure.
deleteClosureStrict(clusterName, remoteErr) ==
    IF remoteErr # "nil"
    THEN closureResult("Error",
             IF recorder
             THEN {[code |-> "DeletionFailed", cluster |-> clusterName, op |-> "delete"]}
             ELSE {},
             IF recorder THEN {} ELSE {opError(clusterName, "delete")},
             heap)
    ELSE closureResult("AllOK", {}, {}, heap)

\* The closure of Delete that reports a failed delete as all-ok.
deleteClosureSwallows(clusterName, remoteErr) ==
    closureResult("AllOK", {}, {}, heap)

\* The closure Delete hands to clusterOperation, after its event is recorded.
deleteClosure(clusterName, remoteErr) ==
    LET err == IF remoteErr = "NotFound" THEN "nil" ELSE remoteErr
    IN  IF err # "nil"
        THEN closureResult("Error",
                 IF recorder
                 THEN {[code |-> "DeletionFailed", cluster |-> clusterName, op |-> "delete"]}
                 ELSE {},
                 IF recorder THEN {} ELSE {opError(clusterName, "delete")},
                 heap)
        ELSE closureResult("AllOK", {}, {}, heap)

\* clusterObj.DeepCopy(): a new object, at reference new, with the labels of obj.
DeepCopy(h, obj, new) == [h EXCEPT ![new] = h[obj]]

\* util.RemoveManagedLabel(obj): the object loses the managed label.
removeManagedLabel(h, obj) == [h EXCEPT ![obj] = @ \ {ManagedLabel}]

\* The closure of RemoveManagedLabel working on the object it was given.
removeManagedLabelClosureInPlace(clusterName, clusterObj, remoteErr) ==
    LET op == "remove managed label from"
        h == removeManagedLabel(heap, clusterObj)
    IN  IF remoteErr # "nil"
        THEN closureResult("Error",
                 IF recorder
                 THEN {[code |-> "LabelRemovalFailed", cluster |-> clusterName, op |-> op]}
                 ELSE {},
                 IF recorder THEN {} ELSE {opError(clusterName, op)},
                 h)
        ELSE closureResult("AllOK", {}, {}, h)

\* The closure RemoveManagedLabel hands to clusterOperation; updateObj, at
\* reference copyRef(clusterName), is what the Update call sends.
removeManagedLabelClosure(clusterName, clusterObj, remoteErr) ==
    LET op == "remove managed label from"
        updateObj == copyRef(clusterName)
        h == removeManagedLabel(DeepCopy(heap, clusterObj, updateObj), updateObj)
    IN  IF remoteErr # "nil"
        THEN closureResult("Error",
                 IF recorder
                 THEN {[code |-> "LabelRemovalFailed", cluster |-> clusterName, op |-> op]}
                 ELSE {},
                 IF recorder THEN {} ELSE {opError(clusterName, op)},
                 h)
        ELSE closureResult("AllOK", {}, {}, h)

\* A dispatcher that returns from a failed operation before counting it.
recordOutcomeUnlessError(clusterName, op, status) ==
    IF status = "Error"
    THEN UNCHANGED <<operationsCompleted, allOk, firstErr>>
    ELSE /\ operationsCompleted' = operationsCompleted + 1
         /\ allOk' = (allOk /\ status = "AllOK")
         /\ firstErr' = firstErr

\* The dispatcher records one completion under its lock.
recordOutcome(clusterName, op, status) ==
    /\ operationsCompleted' = operationsCompleted + 1
    /\ allOk' = (allOk /\ status = "AllOK")
    /\ firstErr' = IF status = "Error" /\ firstErr = NoError
                   THEN opError(clusterName, op)
                   ELSE firstErr

\* The goroutine of an operation whose client is resolved: the closure runs
\* with the answer remoteErr of the member cluster, then its outcome is
\* recorded.
runClosure(clusterName, r, remoteErr) ==
    /\ ops' = [ops EXCEPT ![clusterName].state = "done",
                          ![clusterName].clientOk = TRUE,
                          ![clusterName].remoteErr = remoteErr,
                          ![clusterName].status = r.status]
    /\ heap' = r.heap
    /\ recorded' = recorded \cup r.recorded
    /\ handled' = handled \cup r.handled
    /\ events' = IF recorder
                 THEN events \cup {opError(clusterName, ops[clusterName].kind)}
                 ELSE events
    /\ recordOutcome(clusterName, ops[clusterName].kind, r.status)

\* clusterOperation(clusterName, op, operationFn) for a launched operation.
clusterOperation(clusterName) ==
    /\ ops[clusterName].state = "launched"
    /\ \/ \* the client accessor fails: the operation fails, the closure never runs
          /\ ops' = [ops EXCEPT ![clusterName].state = "done",
                                ![clusterName].status = "Error"]
          /\ recorded' = IF recorder
                         THEN recorded \cup {[code |-> "ClientRetrievalFailed",
                                              cluster |-> clusterName,
                                              op |-> ops[clusterName].kind]}
                         ELSE recorded
          /\ handled' = IF recorder THEN handled
                        ELSE handled \cup {opError(clusterName, "retrieve client")}
          /\ recordOutcome(clusterName, ops[clusterName].kind, "Error")
          /\ UNCHANGED <<heap, events>>
       \/ /\ ops[clusterName].kind = "delete"
          /\ \E remoteErr \in DeleteErrors :
                 runClosure(clusterName, deleteClosure(clusterName, remoteErr), remoteErr)
       \/ /\ ops[clusterName].kind = "remove managed label from"
          /\ \E remoteErr \in UpdateErrors :
                 runClosure(clusterName,
                            removeManagedLabelClosure(clusterName, cacheRef(clusterName),
                                                      remoteErr),
                            remoteErr)
       \/ /\ ops[clusterName].kind = "managed"
          /\ \E status \in Statuses :
                 runClosure(clusterName, closureResult(status, {}, {}, heap),
                            IF status = "Error" THEN "Other" ELSE "nil")
    /\ UNCHANGED <<recorder, operationsInitiated, waitPc, waitRet>>

\* The submitter calls Wait().
WaitCall ==
    /\ waitPc = "idle"
    /\ waitPc' = "waiting"
    /\ UNCHANGED <<recorder, heap, ops, operationsInitiated, operationsCompleted, allOk,
                   firstErr, waitRet, recorded, handled, events>>

\* Wait() returns once as many operations completed as were initiated.
WaitReturn ==
    /\ waitPc = "waiting"
    /\ operationsCompleted = operationsInitiated
    /\ waitPc' = "returned"
    /\ waitRet' = [ok |-> allOk, err |-> IF allOk THEN NoError ELSE firstErr]
    /\ UNCHANGED <<recorder, heap, ops, operationsInitiated, operationsCompleted, allOk,
                   firstErr, recorded, handled, events>>

NextDispatch ==
    \/ \E c \in Targets : Delete(c) /\ UNCHANGED <<informerVars, viewVars, lockVars>>
    \/ \E c \in Targets : RemoveManagedLabel(c) /\ UNCHANGED <<informerVars, viewVars, lockVars>>
    \/ \E c \in Targets : ManagedOperation(c) /\ UNCHANGED <<informerVars, viewVars, lockVars>>
    \/ \E c \in Targets : clusterOperation(c) /\ UNCHANGED <<informerVars, viewVars, lockVars>>
    \/ WaitCall /\ UNCHANGED <<informerVars, viewVars, lockVars>>
    \/ WaitReturn /\ UNCHANGED <<informerVars, viewVars, lockVars>>

SpecDispatch == InitDispatch /\ [][NextDispatch]_vars

\* A launched goroutine is scheduled and its client call returns; a Wait()
\* whose condition holds returns.
SpecDispatchLive ==
    /\ SpecDispatch
    /\ \A c \in Targets :
           WF_vars(clusterOperation(c) /\ UNCHANGED <<informerVars, viewVars, lockVars>>)
    /\ WF_vars(WaitReturn /\ UNCHANGED <<informerVars, viewVars, lockVars>>)

(* ====================== claims on the dispatcher ====================== *)

Dispatched == {c \in Targets : ops[c].state # "none"}

\* C4: Wait() returns only when every operation initiated before it has
\* recorded its completion, and it returns (true, nil) exactly when every
\* outcome was all-ok; any other outcome makes it return false.
C4_WaitJoinsEveryOperation ==
    waitPc = "returned" =>
        /\ operationsCompleted = Cardinality(Dispatched)
        /\ \A c \in Dispatched : ops[c].state = "done"
        /\ waitRet.ok <=> \A c \in Dispatched : ops[c].status = "AllOK"
        /\ waitRet.ok => waitRet.err = NoError

\* Wait() returned false for a pass whose only flaw is a recheck or
\* already-exists outcome.
C4_Witness ==
    /\ waitPc = "returned"
    /\ Cardinality(Dispatched) >= 2
    /\ ~waitRet.ok
    /\ \A c \in Dispatched : ops[c].status # "Error"
    /\ \E c \in Dispatched : ops[c].status = "NeedsRecheckResource"

\* The member cluster failed the call of the operation, or the operation
\* ended in the error outcome.
EndedInError(c) ==
    /\ ops[c].state = "done"
    /\ ops[c].status = "Error" \/ (ops[c].clientOk /\ ops[c].remoteErr = "Other")

\* C5: when one of the operations of a pass ends in an error, Wait()
\* returns false with an error, and every other operation has still run to
\* completion with the outcome of its own call.
C5_ErrorsDoNotAbortSiblings ==
    (waitPc = "returned" /\ \E c \in Dispatched : EndedInError(c)) =>
        /\ ~waitRet.ok
        /\ waitRet.err # NoError
        /\ \A c \in Dispatched :
               /\ ops[c].state = "done"
               /\ (ops[c].clientOk /\ ops[c].kind # "managed" /\ ops[c].remoteErr # "Other")
                      => ops[c].status = "AllOK"

\* Three clusters, one failed delete, the two others done and all-ok.
C5_Witness ==
    /\ waitPc = "returned"
    /\ Cardinality(Dispatched) >= 3
    /\ \E c \in Dispatched :
           /\ ops[c].kind = "delete"
           /\ ops[c].remoteErr = "Other"
           /\ \A o \in Dispatched \ {c} : ops[o].state = "done" /\ ops[o].status = "AllOK"
    /\ ~waitRet.ok

ErrorsAbout(c) == {e \in recorded \cup handled : e.cluster = c}

\* C6: a delete that the member cluster answers with not-found is all-ok
\* and records no error; any other failure of the delete is the error
\* outcome, recorded by the recorder if there is one and handed to the
\* process-wide error handler otherwise.
C6_DeleteOutcome ==
    \A c \in Targets :
        (ops[c].kind = "delete" /\ ops[c].state = "done" /\ ops[c].clientOk) =>
            IF ops[c].remoteErr = "Other"
            THEN /\ ops[c].status = "Error"
                 /\ IF recorder
                    THEN ErrorsAbout(c) = {[code |-> "DeletionFailed", cluster |-> c,
                                            op |-> "delete"]}
                    ELSE ErrorsAbout(c) = {opError(c, "delete")}
                 /\ recorder => handled = {}
                 /\ ~recorder => recorded = {}
            ELSE /\ ops[c].status = "AllOK"
                 /\ ErrorsAbout(c) = {}

\* A delete was answered with not-found.
C6_Witness ==
    \E c \in Targets :
        /\ ops[c].kind = "delete"
        /\ ops[c].state = "done"
        /\ ops[c].clientOk
        /\ ops[c].remoteErr = "NotFound"

\* C7: RemoveManagedLabel never changes the object it is given, the one in
\* the per-cluster cache, whatever the update call returns; the label is
\* removed from a copy, and the copy is what is sent.
C7_CachedObjectUntouched ==
    /\ [][\A c \in Targets : heap'[cacheRef(c)] = heap[cacheRef(c)]]_vars
    /\ [](\A c \in Targets :
             (ops[c].kind = "remove managed label from" /\ ops[c].state = "done"
                 /\ ops[c].clientOk)
                 => heap[copyRef(c)] = heap[cacheRef(c)] \ {ManagedLabel})

\* The closure ran on an object that carries the managed label.
C7_Witness ==
    \E c \in Targets :
        /\ ops[c].kind = "remove managed label from"
        /\ ops[c].state = "done"
        /\ ops[c].clientOk
        /\ ManagedLabel \in heap[cacheRef(c)]
        /\ ManagedLabel \notin heap[copyRef(c)]

Completed == {c \in Targets : ops[c].state = "done"}

\* C17: the operation is counted as initiated in the step that launches its
\* goroutine, so completed <= initiated in every state, and Wait() returns
\* only in a state where as many operations completed as were submitted.
C17_CountedBeforeLaunched ==
    /\ [](/\ operationsInitiated = Cardinality(Dispatched)
          /\ operationsCompleted <= operationsInitiated)
    /\ [][(waitPc = "waiting" /\ waitPc' = "returned") =>
              /\ operationsCompleted = Cardinality(Dispatched)
              /\ Completed = Dispatched]_vars

\* Wait() is blocked while a goroutine that was launched has not run yet and
\* another operation has completed.
C17_Witness ==
    /\ waitPc = "waiting"
    /\ \E c \in Targets : ops[c].state = "launched"
    /\ operationsCompleted >= 1
    /\ operationsCompleted < operationsInitiated

\* C18: every operation that was initiated records its completion, once,
\* whatever its closure returns and also when no client is found for its
\* cluster; so a Wait() that was called returns.
C18_EveryOperationCompletes ==
    /\ [](operationsCompleted = Cardinality(Completed))
    /\ [][\A c \in Completed : ops'[c] = ops[c]]_vars
    /\ \A c \in Targets : (ops[c].state = "launched") ~> (ops[c].state = "done")
    /\ (waitPc = "waiting") ~> (waitPc = "returned")

\* Wait() returned from a pass in which the client of one cluster was not
\* found, a closure failed and a closure asked for a recheck.
C18_Witness ==
    /\ waitPc = "returned"
    /\ operationsCompleted = NumTargets
    /\ \E c \in Completed : ~ops[c].clientOk
    /\ \E c \in Completed : ops[c].clientOk /\ ops[c].status = "Error"
    /\ \E c \in Completed : ops[c].status = "NeedsRecheckMeta"

(* ========================= the informer's mutex ======================== *)

\* What an operation does with the mutex is the sequence of its Lock and
\* Unlock calls (a deferred Unlock runs when the function returns) and of
\* its calls of user code, in the order the source makes them.  An operation
\* with branches has one sequence for each path.
Cat(A, B) == {a \o b : a \in A, b \in B}

\* f.Lock(); defer f.Unlock(); body
Locked(body) == {<<"Lock">> \o b \o <<"Unlock">> : b \in body}

StartLocking == Locked({<<>>})

StopLocking == Locked({<<>>})

SetClientFactoryLocking == Locked({<<>>})

getReadyClusterUnlockedLocking == {<<>>}

\* The client factory is called when the ready cluster was found.
getClientForClusterUnlockedLocking ==
    Cat(getReadyClusterUnlockedLocking, {<<>>, <<"clientFactory">>})

GetClientForClusterLocking == Locked(getClientForClusterUnlockedLocking)

GetReadyClusterLocking == Locked(getReadyClusterUnlockedLocking)

GetReadyClustersLocking == Locked({<<>>})

GetUnreadyClustersLocking == Locked({<<>>})

\* addCluster that gets its client from the exported GetClientForCluster.
addClusterLockingViaGetClientForCluster ==
    Locked(Cat(GetClientForClusterLocking, {<<>>, <<"targetInformerFactory">>}))

addClusterLocking ==
    Locked(Cat(getClientForClusterUnlockedLocking, {<<>>, <<"targetInformerFactory">>}))

deleteClusterLocking == Locked({<<>>})

ListLocking == Locked({<<>>})

ListFromClusterLocking == Locked({<<>>})

GetByKeyLocking == Locked({<<>>})

GetFromAllClustersLocking == Locked({<<>>})

\* ClustersSynced checks HasSynced after its locked closure returned.
ClustersSyncedLocking == Cat(Locked({<<>>}), {<<>>, <<"HasSynced">>})

getClusterDataLocking == ListFromClusterLocking

\* The handlers: the paths with and without a registered callback, and the
\* path that does nothing (a tombstone, a cluster that is not ready, an
\* unchanged Update).
DeleteFuncLocking ==
    {<<>>} \cup deleteClusterLocking
           \cup Cat(getClusterDataLocking, Cat(deleteClusterLocking, {<<"ClusterUnavailable">>}))

AddFuncLocking ==
    {<<>>} \cup addClusterLocking \cup Cat(addClusterLocking, {<<"ClusterAvailable">>})

UpdateFuncLocking ==
    {<<>>} \cup Cat(DeleteFuncLocking \ {<<>>}, AddFuncLocking)

HandlerLocking == DeleteFuncLocking \cup AddFuncLocking \cup UpdateFuncLocking

\* What the users of the informer call, from their goroutines or from inside
\* a lifecycle callback.
ReadLocking ==
    GetClientForClusterLocking \cup GetReadyClusterLocking \cup GetReadyClustersLocking
        \cup GetUnreadyClustersLocking \cup ListLocking \cup ListFromClusterLocking
        \cup GetByKeyLocking \cup GetFromAllClustersLocking \cup ClustersSyncedLocking

CallerLocking ==
    StartLocking \cup StopLocking \cup SetClientFactoryLocking \cup ReadLocking

Callbacks == {"ClusterAvailable", "ClusterUnavailable"}

\* A goroutine that has nothing to do starts an operation: the watch loop a
\* handler, a user one of the exported operations.
Begin(t) ==
    /\ frames[t] = <<>>
    /\ \E ops1 \in IF t = "watch" THEN HandlerLocking ELSE CallerLocking :
           /\ ops1 # <<>>
           /\ frames' = [frames EXCEPT ![t] = ops1]
    /\ UNCHANGED mutex

\* f.Lock(): sync.Mutex is not reentrant, the call returns when the mutex
\* is free, whoever holds it.
Lock(t) ==
    /\ frames[t] # <<>>
    /\ Head(frames[t]) = "Lock"
    /\ mutex = NoThread
    /\ mutex' = t
    /\ frames' = [frames EXCEPT ![t] = Tail(@)]

Unlock(t) ==
    /\ frames[t] # <<>>
    /\ Head(frames[t]) = "Unlock"
    /\ mutex' = NoThread
    /\ frames' = [frames EXCEPT ![t] = Tail(@)]

\* The handler invokes a lifecycle callback, and the callback calls back
\* into the informer or its store (or does not) before it returns.
InvokeCallback(t) ==
    /\ frames[t] # <<>>
    /\ Head(frames[t]) \in Callbacks
    /\ \E calls \in ReadLocking \cup {<<>>} :
           frames' = [frames EXCEPT ![t] = calls \o <<"callback returns">> \o Tail(@)]
    /\ UNCHANGED mutex

\* The client factory, the target informer factory, HasSynced, the return
\* of a callback: steps that do not touch the mutex.
OtherCall(t) ==
    /\ frames[t] # <<>>
    /\ Head(frames[t]) \notin {"Lock", "Unlock"} \cup Callbacks
    /\ frames' = [frames EXCEPT ![t] = Tail(@)]
    /\ UNCHANGED mutex

NextLock ==
    \/ \E t \in Threads : Begin(t) /\ UNCHANGED <<informerVars, viewVars, dispatchVars>>
    \/ \E t \in Threads : Lock(t) /\ UNCHANGED <<informerVars, viewVars, dispatchVars>>
    \/ \E t \in Threads : Unlock(t) /\ UNCHANGED <<informerVars, viewVars, dispatchVars>>
    \/ \E t \in Threads : InvokeCallback(t) /\ UNCHANGED <<informerVars, viewVars, dispatchVars>>
    \/ \E t \in Threads : OtherCall(t) /\ UNCHANGED <<informerVars, viewVars, dispatchVars>>

SpecLock == Init /\ [][NextLock]_vars

(* ========================= claims on the mutex ========================= *)

\* The goroutine can take its next step.
CanStep(t) ==
    /\ frames[t] # <<>>
    /\ Head(frames[t]) = "Lock" => mutex = NoThread

\* C23: no goroutine calls Lock() while it holds the mutex or Unlock() while
\* it does not, a lifecycle callback is invoked by a goroutine that does not
\* hold the mutex, an operation returns with the mutex released, and as long
\* as a goroutine has something to do some goroutine can take a step.
C23_MutexNeverHeldTwiceNorInCallback ==
    /\ \A t \in Threads :
           /\ frames[t] = <<>> => mutex # t
           /\ frames[t] # <<>> =>
                  /\ Head(frames[t]) = "Lock" => mutex # t
                  /\ Head(frames[t]) = "Unlock" => mutex = t
                  /\ Head(frames[t]) \in Callbacks => mutex # t
    /\ (\E t \in Threads : frames[t] # <<>>) => \E t \in Threads : CanStep(t)

\* The watch loop is inside a lifecycle callback whose code called
\* GetClientForCluster, while a user's goroutine holds the mutex and another
\* waits for it.
C23_Witness ==
    /\ Len(frames["watch"]) >= 4
    /\ frames["watch"][1] = "Lock"
    /\ frames["watch"][2] = "clientFactory"
    /\ frames["watch"][3] = "Unlock"
    /\ frames["watch"][4] = "callback returns"
    /\ mutex = "caller1"
    /\ frames["caller2"] # <<>>
    /\ Head(frames["caller2"]) = "Lock"

====
